---- MODULE Spec2Model ----
\* Vocabulary aggregation pipeline (controllers/corpus.py), the NGram table
\* behind ServiceDB (database/service.py) and the positional access of the
\* indexed collection (helpers/db.py, database/service.py).
EXTENDS Integers, Sequences, FiniteSets, TLC

\* ---------------------------------------------------------------- bounds
MaxDocs == 2        \* documents in the corpus
MaxRuns == 2        \* build_vocab invocations in one behaviour
MaxConflicts == 1   \* OperationalErrors the store raises in one behaviour
MaxItems == 2       \* records in one list given to bulk_update
MaxId == 3          \* greatest identity of a row of the documents table
MaxPos == 4         \* greatest magnitude of a position, start or stop
MaxDim == 2         \* greatest length of an embedding vector

\* ------------------------------------------------------------- NGram rows
None == "None"

\* the n-gram strings, in the order a document's ngrams map lists them
NGramOrder == <<"a", "b", "c">>
NGramStrings == {NGramOrder[i] : i \in 1..Len(NGramOrder)}

\* MixinORM.hash: md5(data).hexdigest()
hash(data) ==
    CASE data = "a" -> "0cc175b9c0f1b6a831c399e269772661"
      [] data = "b" -> "92eb5ffee6ae2fec3ad71c777531578f"
      [] data = "c" -> "4a8a08f09d37b73795649038408b5f33"
      [] OTHER -> None

\* hash_id(context): column default of NGram.id, applied by INSERT
hash_id(rec) == hash(rec.ngram)

\* NGram(ngram, frequency): id is init=False (unset), occurence defaults to 0
NGram(ngram, frequency) ==
    [id |-> None, ngram |-> ngram, frequency |-> frequency, occurence |-> 0]

NoRecord == [id |-> None, ngram |-> "", frequency |-> 0, occurence |-> 0]

\* session.get(NGram, id): the rows with that primary key (none or one)
get(tbl, id) == {r \in tbl : r.id = id}

\* merge with the fetched row's frequency overwritten instead of increased
merge_overwrite(found, ngram, frequency) ==
    LET new_ngram == IF found # {}
                     THEN LET row == CHOOSE r \in found : TRUE
                          IN [row EXCEPT !.frequency = frequency]
                     ELSE NGram(ngram, frequency)
    IN [new_ngram EXCEPT !.occurence = @ + 1]

\* merge with occurence set to 1 instead of increased
merge_reset(found, ngram, frequency) ==
    LET new_ngram == IF found # {}
                     THEN LET row == CHOOSE r \in found : TRUE
                          IN [row EXCEPT !.frequency = @ + frequency]
                     ELSE NGram(ngram, frequency)
    IN [new_ngram EXCEPT !.occurence = 1]

\* process_ngrams lines 29-34, on the outcome of session.get
merge(found, ngram, frequency) ==
    LET new_ngram == IF found # {}
                     THEN LET row == CHOOSE r \in found : TRUE
                          IN [row EXCEPT !.frequency = @ + frequency]
                     ELSE NGram(ngram, frequency)
    IN [new_ngram EXCEPT !.occurence = @ + 1]

\* UPDATE ngrams SET frequency, occurence WHERE id = rec.id
update(tbl, rec) ==
    {IF r.id = rec.id
     THEN [r EXCEPT !.frequency = rec.frequency, !.occurence = rec.occurence]
     ELSE r : r \in tbl}

\* INSERT with no constraint on the table
insert_unchecked(tbl, rec) == TRUE

\* primary key on id and unique constraint on ngram, checked by INSERT
insert_ok(tbl, rec) ==
    \A r \in tbl : r.id # hash_id(rec) /\ r.ngram # rec.ngram

\* INSERT with the n-gram string itself as the identity
insert_plain(tbl, rec) == tbl \cup {[rec EXCEPT !.id = rec.ngram]}

\* INSERT of a record without identity: id takes its default hash_id
insert(tbl, rec) == tbl \cup {[rec EXCEPT !.id = hash_id(rec)]}

\* ------------------------------------------------------------- variables
VARIABLES
    corpus,                  \* documents in ascending identity: ngrams maps
    table,                   \* rows of the ngrams table (committed state)
    settings,                \* values of the last_document_processed row: {} or {v}
    pc,                      \* position of build_vocab
    resume,                  \* argument of the running build_vocab
    index,                   \* loop variable of build_vocab (1-based ordinal)
    last_document_processed, \* local read at line 223
    ngrams,                  \* list returned by batch_processing
    wpc, wfreq, value,       \* merge workers: position, frequency, record
    failure,                 \* merge workers of one batch: class of the storage failure raised
    bu_pc, old_items, new_items, \* bulk_update calls: position and groups
    error,                   \* exception that ended the last build_vocab
    pass,                    \* what the table and checkpoint derive from
    runs, conflicts,         \* counters bounding the behaviour
    ids,                     \* identities of the rows of the documents table
    view,                    \* DB(orm_model, index): argument, rows at that time
    _index,                  \* DB._index: <<>> for None, <<list>> otherwise
    call, returned           \* last call on the collection and what it returned

vars == <<corpus, table, settings, pc, resume, index, last_document_processed,
          ngrams, wpc, wfreq, value, failure, bu_pc, old_items, new_items, error,
          pass, runs, conflicts, ids, view, _index, call, returned>>

buildVars == <<pc, resume, index, last_document_processed, ngrams, error,
               pass, runs>>
workerVars == <<wpc, wfreq, value, failure>>
bulkVars == <<bu_pc, old_items, new_items>>
collectionVars == <<ids, view, _index, call, returned>>

Callers == {"c1", "c2"}

\* Document.ngrams maps the corpus is drawn from: an n-gram is absent (0),
\* occurs once (1, never dispatched) or occurs twice (2, dispatched)
Vocabulary == {"a", "b"}
Documents ==
    {d \in [NGramStrings -> {0, 1, 2}] :
        \A x \in NGramStrings \ Vocabulary : d[x] = 0}

\* the store before the first build_vocab: new (no ngrams row, no settings
\* row) or left by earlier use (a row of an earlier vocabulary, a checkpoint)
InitStores ==
    {[table |-> {}, settings |-> {}],
     [table |-> {[id |-> hash("a"), ngram |-> "a", frequency |-> 3,
                  occurence |-> 2]},
      settings |-> {1}]}

\* no merge worker and no bulk_update call has started
InitWorkers ==
    /\ wpc = [x \in NGramStrings |-> "idle"]
    /\ wfreq = [x \in NGramStrings |-> 0]
    /\ value = [x \in NGramStrings |-> NoRecord]
    /\ failure = [x \in NGramStrings |-> "none"]
    /\ bu_pc = [c \in Callers |-> "idle"]
    /\ old_items = [c \in Callers |-> <<>>]
    /\ new_items = [c \in Callers |-> <<>>]
    /\ conflicts = 0

InitStore ==
    /\ \E store \in InitStores : table = store.table /\ settings = store.settings
    /\ InitWorkers

InitBuild ==
    /\ pc = "idle"
    /\ resume = FALSE
    /\ index = 0
    /\ last_document_processed = 0
    /\ ngrams = <<>>
    /\ error = "none"
    /\ pass = "none"
    /\ runs = 0

NoCall == [op |-> "none"]
NoView == [index |-> <<>>, rows |-> {}]
Returned(rows) == [raised |-> "none", rows |-> rows]

InitCollection ==
    /\ ids = {}
    /\ view = NoView
    /\ _index = <<>>
    /\ call = NoCall
    /\ returned = Returned(<<>>)

Init ==
    /\ corpus \in [1..MaxDocs -> Documents]
    /\ InitStore
    /\ InitBuild
    /\ InitCollection

\* ------------------------------------------------- merge worker (process_ngrams)
\* lines 29-36: session.get, merge, value = new_ngram
fetch(x) ==
    /\ wpc[x] = "fetch"
    /\ value' = [value EXCEPT ![x] = merge(get(table, hash(x)), x, wfreq[x])]
    /\ wpc' = [wpc EXCEPT ![x] = "commit"]
    /\ UNCHANGED <<corpus, table, settings, wfreq, failure, conflicts>>
    /\ UNCHANGED <<buildVars, bulkVars>>
    /\ UNCHANGED collectionVars

\* lines 38-39: OperationalError inside the try block, continue
fetch_retry(x) ==
    /\ wpc[x] = "fetch"
    /\ conflicts < MaxConflicts
    /\ conflicts' = conflicts + 1
    /\ UNCHANGED <<corpus, table, settings, workerVars>>
    /\ UNCHANGED <<buildVars, bulkVars>>
    /\ UNCHANGED collectionVars

\* what session.commit() of session_scope flushes: the UPDATE of a fetched
\* (persistent) row; a new NGram was never added to the session
scope_flush(tbl, rec) == IF rec.id # None THEN update(tbl, rec) ELSE tbl

\* session_scope exit, commit succeeds; process_ngrams returns value
scope_commit(x) ==
    /\ wpc[x] = "commit"
    /\ table' = scope_flush(table, value[x])
    /\ wpc' = [wpc EXCEPT ![x] = "done"]
    /\ UNCHANGED <<corpus, settings, wfreq, value, failure, conflicts>>
    /\ UNCHANGED <<buildVars, bulkVars>>
    /\ UNCHANGED collectionVars

\* session_scope exit, commit fails with an OperationalError: the commit is
\* outside the try block of process_ngrams, so session_scope rolls back and
\* re-raises
scope_raise(x) ==
    /\ wpc[x] = "commit"
    /\ value[x].id # None
    /\ conflicts < MaxConflicts
    /\ conflicts' = conflicts + 1
    /\ wpc' = [wpc EXCEPT ![x] = "raised"]
    /\ UNCHANGED <<corpus, table, settings, wfreq, value, failure>>
    /\ UNCHANGED <<buildVars, bulkVars>>
    /\ UNCHANGED collectionVars

\* the classes under which the driver's failures of the storage
\* infrastructure (a lost connection, an unavailable server) reach the caller
ExceptionClasses == {"OperationalError", "InterfaceError"}

\* the storage infrastructure fails under a worker, with exception class exc:
\* inside the try block (lines 29-36) `except OperationalError: continue`
\* takes the failure for a conflict and fetches again, any other class leaves
\* through session_scope (rollback, raise); at the commit of session_scope
\* every class is rolled back and raised
storage_failure(x, exc) ==
    /\ wpc[x] \in {"fetch", "commit"}
    /\ conflicts < MaxConflicts
    /\ conflicts' = conflicts + 1
    /\ failure' = [failure EXCEPT ![x] = exc]
    /\ wpc' = [wpc EXCEPT ![x] =
                  IF wpc[x] = "fetch" /\ exc = "OperationalError"
                  THEN "fetch" ELSE "raised"]
    /\ UNCHANGED <<corpus, table, settings, wfreq, value>>
    /\ UNCHANGED <<buildVars, bulkVars>>
    /\ UNCHANGED collectionVars

\* ------------------------------------------------------ ServiceDB.bulk_update
RECURSIVE bulk_save_objects(_, _)
\* session.bulk_save_objects(old_items): one UPDATE per record with identity
bulk_save_objects(tbl, items) ==
    IF items = <<>> THEN tbl
    ELSE bulk_save_objects(update(tbl, Head(items)), Tail(items))

RECURSIVE flush(_, _)
\* flush of the records given to session.add_all: one INSERT each, the first
\* one the constraints reject fails the flush
flush(tbl, items) ==
    IF items = <<>> THEN [ok |-> TRUE, table |-> tbl]
    ELSE IF insert_ok(tbl, Head(items))
         THEN flush(insert(tbl, Head(items)), Tail(items))
         ELSE [ok |-> FALSE, table |-> tbl]

\* no rollback: what the failed transaction wrote stays
rollback_missing(tbl, written) == written

\* a failed transaction is rolled back: the store keeps its committed state
rollback(tbl, written) == tbl

\* the transaction of one bulk_update call, decided at session.commit()
transaction(tbl, old, new) ==
    LET tx == flush(bulk_save_objects(tbl, old), new)
    IN IF tx.ok THEN tx
       ELSE [ok |-> FALSE, table |-> rollback(tbl, tx.table)]

has_identity(it) == it.id # None
no_identity(it) == it.id = None

\* lines 106-115: the two groups are handed to the session
bulk_update_begin(c, items) ==
    /\ bu_pc[c] # "commit"
    /\ old_items' = [old_items EXCEPT ![c] = SelectSeq(items, has_identity)]
    /\ new_items' = [new_items EXCEPT ![c] = SelectSeq(items, no_identity)]
    /\ bu_pc' = [bu_pc EXCEPT ![c] = "commit"]

\* line 117: session.commit()
bulk_update_commit(c) ==
    /\ bu_pc[c] = "commit"
    /\ LET tx == transaction(table, old_items[c], new_items[c])
       IN /\ table' = tx.table
          /\ bu_pc' = [bu_pc EXCEPT ![c] = IF tx.ok THEN "returned" ELSE "raised"]
    /\ UNCHANGED <<old_items, new_items>>

\* a column expression (NGram.occurence == 1): whether row r satisfies it
satisfies(r, arg) ==
    LET v == IF arg.column = "frequency" THEN r.frequency ELSE r.occurence
    IN IF arg.op = "==" THEN v = arg.value ELSE v > arg.value

\* DELETE of the rows that satisfy one of the conditions at least
delete_where_or(tbl, args) ==
    IF args = <<>> THEN tbl
    ELSE {r \in tbl : ~(\E k \in DOMAIN args : satisfies(r, args[k]))}

\* ServiceDB.delete_where(*args): nothing when no condition is given, else
\* DELETE ... WHERE and_(*args), committed
delete_where(tbl, args) ==
    IF args = <<>> THEN tbl
    ELSE {r \in tbl : ~(\A k \in DOMAIN args : satisfies(r, args[k]))}

\* ------------------------------------------ CorpusController.build_vocab
Running == pc \in {"clear_vocab", "set", "get", "for", "batch_processing",
                   "bulk_update", "commit", "checkpoint", "delete_where"}

\* every item of the document, whatever its frequency
data_unfiltered(document) == SelectSeq(NGramOrder, LAMBDA x : document[x] > 0)

\* the data of line 232-233: the items of the document with frequency > 1
data(document) == SelectSeq(NGramOrder, LAMBDA x : document[x] > 1)

\* build_vocab without the branch of lines 218-220: nothing is cleared
build_vocab_no_clear(r) ==
    /\ ~Running
    /\ runs < MaxRuns
    /\ runs' = runs + 1
    /\ resume' = r
    /\ error' = "none"
    /\ pc' = "get"
    /\ UNCHANGED <<corpus, table, settings, index, last_document_processed,
                   ngrams, pass, conflicts>>
    /\ UNCHANGED <<workerVars, bulkVars>>
    /\ UNCHANGED collectionVars

\* lines 217-218: a fresh run clears first, a resumed run reads the checkpoint
build_vocab(r) ==
    /\ ~Running
    /\ runs < MaxRuns
    /\ runs' = runs + 1
    /\ resume' = r
    /\ error' = "none"
    /\ pc' = IF r THEN "get" ELSE "clear_vocab"
    /\ UNCHANGED <<corpus, table, settings, index, last_document_processed,
                   ngrams, pass, conflicts>>
    /\ UNCHANGED <<workerVars, bulkVars>>
    /\ UNCHANGED collectionVars

\* Vocab.clear_vocab of controllers/vocab.py: the module is imported by
\* controllers/corpus.py (line 20) and its text is not in the repository
\* snapshot, so its effect is the documented one: it clears the NGram table
\* and its embeddings
Vocab_clear_vocab(tbl) == {}

\* line 219
clear_vocab ==
    /\ pc = "clear_vocab"
    /\ table' = Vocab_clear_vocab(table)
    /\ pass' = "none"
    /\ pc' = "set"
    /\ UNCHANGED <<corpus, settings, resume, index, last_document_processed,
                   ngrams, error, runs, conflicts>>
    /\ UNCHANGED <<workerVars, bulkVars>>
    /\ UNCHANGED collectionVars

\* line 220
reset_checkpoint ==
    /\ pc = "set"
    /\ settings' = {0}
    /\ pass' = "fresh"
    /\ pc' = "get"
    /\ UNCHANGED <<corpus, table, resume, index, last_document_processed,
                   ngrams, error, runs, conflicts>>
    /\ UNCHANGED <<workerVars, bulkVars>>
    /\ UNCHANGED collectionVars

\* lines 223-225: Settings.get(...).value, then the loop starts at ordinal 1
read_checkpoint ==
    /\ pc = "get"
    /\ IF settings = {}
       THEN /\ error' = "AttributeError"
            /\ pc' = "raised"
            /\ UNCHANGED <<index, last_document_processed>>
       ELSE /\ last_document_processed' = CHOOSE v \in settings : TRUE
            /\ index' = 1
            /\ pc' = "for"
            /\ UNCHANGED error
    /\ UNCHANGED <<corpus, table, settings, resume, ngrams, pass, runs,
                   conflicts>>
    /\ UNCHANGED <<workerVars, bulkVars>>
    /\ UNCHANGED collectionVars

\* lines 228-229
skip ==
    /\ pc = "for"
    /\ index <= Len(corpus)
    /\ resume /\ index <= last_document_processed
    /\ index' = index + 1
    /\ UNCHANGED <<corpus, table, settings, pc, resume,
                   last_document_processed, ngrams, error, pass, runs,
                   conflicts>>
    /\ UNCHANGED <<workerVars, bulkVars>>
    /\ UNCHANGED collectionVars

\* batch_processing started for a document whatever the checkpoint
dispatch_all ==
    /\ pc = "for"
    /\ index <= Len(corpus)
    /\ LET items == data(corpus[index])
           sent == {items[i] : i \in 1..Len(items)}
       IN /\ wpc' = [x \in NGramStrings |->
                        IF x \in sent THEN "fetch" ELSE "idle"]
          /\ wfreq' = [x \in NGramStrings |->
                        IF x \in sent THEN corpus[index][x] ELSE 0]
    /\ value' = [x \in NGramStrings |-> NoRecord]
    /\ failure' = [x \in NGramStrings |-> "none"]
    /\ pc' = "batch_processing"
    /\ UNCHANGED <<corpus, table, settings, resume, index,
                   last_document_processed, ngrams, error, pass, runs,
                   conflicts>>
    /\ UNCHANGED bulkVars
    /\ UNCHANGED collectionVars

\* lines 231-234: batch_processing starts one process_ngrams per item
dispatch ==
    /\ pc = "for"
    /\ index <= Len(corpus)
    /\ ~(resume /\ index <= last_document_processed)
    /\ LET items == data(corpus[index])
           sent == {items[i] : i \in 1..Len(items)}
       IN /\ wpc' = [x \in NGramStrings |->
                        IF x \in sent THEN "fetch" ELSE "idle"]
          /\ wfreq' = [x \in NGramStrings |->
                        IF x \in sent THEN corpus[index][x] ELSE 0]
    /\ value' = [x \in NGramStrings |-> NoRecord]
    /\ failure' = [x \in NGramStrings |-> "none"]
    /\ pc' = "batch_processing"
    /\ UNCHANGED <<corpus, table, settings, resume, index,
                   last_document_processed, ngrams, error, pass, runs,
                   conflicts>>
    /\ UNCHANGED bulkVars
    /\ UNCHANGED collectionVars

\* batch_processing returns the workers' records in the order of data
join ==
    /\ pc = "batch_processing"
    /\ \A x \in NGramStrings : wpc[x] \in {"idle", "done"}
    /\ LET items == data(corpus[index])
       IN ngrams' = [i \in 1..Len(items) |-> value[items[i]]]
    /\ wpc' = [x \in NGramStrings |-> "idle"]
    /\ pc' = "bulk_update"
    /\ UNCHANGED <<corpus, table, settings, resume, index,
                   last_document_processed, error, pass, runs, conflicts>>
    /\ failure' = [x \in NGramStrings |-> "none"]
    /\ UNCHANGED <<wfreq, value, bulkVars>>
    /\ UNCHANGED collectionVars

\* a worker's exception is raised again by batch_processing in build_vocab
join_raise ==
    /\ pc = "batch_processing"
    /\ \E x \in NGramStrings : wpc[x] = "raised"
    /\ wpc' = [x \in NGramStrings |-> "idle"]
    /\ error' = (LET x == CHOOSE y \in NGramStrings : wpc[y] = "raised"
                  IN IF failure[x] # "none" THEN failure[x]
                     ELSE "OperationalError")
    /\ pc' = "raised"
    /\ UNCHANGED <<corpus, table, settings, resume, index,
                   last_document_processed, ngrams, pass, runs, conflicts>>
    /\ failure' = [x \in NGramStrings |-> "none"]
    /\ UNCHANGED <<wfreq, value, bulkVars>>
    /\ UNCHANGED collectionVars

\* line 236, up to the commit of bulk_update
bulk_update ==
    /\ pc = "bulk_update"
    /\ bulk_update_begin("c1", ngrams)
    /\ pc' = "commit"
    /\ UNCHANGED <<corpus, table, settings, resume, index,
                   last_document_processed, ngrams, error, pass, runs,
                   conflicts>>
    /\ UNCHANGED workerVars
    /\ UNCHANGED collectionVars

\* line 236, the commit of bulk_update
bulk_update_return ==
    /\ pc = "commit"
    /\ bulk_update_commit("c1")
    /\ IF bu_pc'["c1"] = "returned"
       THEN pc' = "checkpoint" /\ UNCHANGED error
       ELSE pc' = "raised" /\ error' = "IntegrityError"
    /\ UNCHANGED <<corpus, settings, resume, index, last_document_processed,
                   ngrams, pass, runs, conflicts>>
    /\ UNCHANGED workerVars
    /\ UNCHANGED collectionVars

\* the checkpoint written before the bulk_update of the document
checkpoint_early ==
    /\ pc = "bulk_update"
    /\ ngrams' = <<>>
    /\ settings' = {index}
    /\ index' = index + 1
    /\ pc' = "for"
    /\ UNCHANGED <<corpus, table, resume, last_document_processed, error,
                   pass, runs, conflicts>>
    /\ UNCHANGED <<workerVars, bulkVars>>
    /\ UNCHANGED collectionVars

\* lines 237-239
checkpoint ==
    /\ pc = "checkpoint"
    /\ ngrams' = <<>>
    /\ settings' = {index}
    /\ index' = index + 1
    /\ pc' = "for"
    /\ UNCHANGED <<corpus, table, resume, last_document_processed, error,
                   pass, runs, conflicts>>
    /\ UNCHANGED <<workerVars, bulkVars>>
    /\ UNCHANGED collectionVars

\* NGram.occurence > 1
occurence_above_1 == [column |-> "occurence", op |-> ">", value |-> 1]

\* NGram.occurence == 1
occurence_is_1 == [column |-> "occurence", op |-> "==", value |-> 1]

\* line 241, after the loop
prune ==
    /\ pc = "for"
    /\ index > Len(corpus)
    /\ table' = delete_where(table, <<occurence_is_1>>)
    /\ pass' = "pruned"
    /\ pc' = "returned"
    /\ UNCHANGED <<corpus, settings, resume, index, last_document_processed,
                   ngrams, error, runs, conflicts>>
    /\ UNCHANGED <<workerVars, bulkVars>>
    /\ UNCHANGED collectionVars

\* the process running build_vocab is killed: its workers and its open
\* transaction die with it, the committed store stays
kill ==
    /\ Running
    /\ pc' = "killed"
    /\ wpc' = [x \in NGramStrings |-> "idle"]
    /\ bu_pc' = [bu_pc EXCEPT !["c1"] = "idle"]
    /\ ngrams' = <<>>
    /\ UNCHANGED <<corpus, table, settings, resume, index,
                   last_document_processed, error, pass, runs, conflicts>>
    /\ failure' = [x \in NGramStrings |-> "none"]
    /\ UNCHANGED <<wfreq, value, old_items, new_items>>
    /\ UNCHANGED collectionVars

Next ==
    \/ \E r \in BOOLEAN : build_vocab(r)
    \/ clear_vocab
    \/ reset_checkpoint
    \/ read_checkpoint
    \/ skip
    \/ dispatch
    \/ \E x \in NGramStrings : fetch(x)
    \/ \E x \in NGramStrings : fetch_retry(x)
    \/ \E x \in NGramStrings : scope_commit(x)
    \/ \E x \in NGramStrings : scope_raise(x)
    \/ \E x \in NGramStrings : \E exc \in ExceptionClasses :
          storage_failure(x, exc)
    \/ join
    \/ join_raise
    \/ bulk_update
    \/ bulk_update_return
    \/ checkpoint
    \/ prune
    \/ kill

Spec == Init /\ [][Next]_vars

\* ------------------------------------- clear_vocab called between builds
\* clear_vocab that also writes the checkpoint of a fresh run
call_clear_vocab_reset ==
    /\ ~Running
    /\ table' = Vocab_clear_vocab(table)
    /\ settings' = {0}
    /\ pass' = "cleared"
    /\ UNCHANGED <<corpus, pc, resume, index, last_document_processed,
                   ngrams, error, runs, conflicts>>
    /\ UNCHANGED <<workerVars, bulkVars>>
    /\ UNCHANGED collectionVars

\* lines 252-253: CorpusController.clear_vocab called by a client while no
\* build_vocab runs; its one statement is self._vocab.clear_vocab()
call_clear_vocab ==
    /\ ~Running
    /\ table' = Vocab_clear_vocab(table)
    /\ pass' = "cleared"
    /\ UNCHANGED <<corpus, settings, pc, resume, index,
                   last_document_processed, ngrams, error, runs, conflicts>>
    /\ UNCHANGED <<workerVars, bulkVars>>
    /\ UNCHANGED collectionVars

\* corpora whose documents all hold "a" twice, so that a complete build
\* leaves a row for "a"
InitClear ==
    /\ corpus \in [1..MaxDocs -> {d \in Documents : d["a"] = 2}]
    /\ InitStore
    /\ InitBuild
    /\ InitCollection

NextClear ==
    \/ Next
    \/ call_clear_vocab

SpecClear == InitClear /\ [][NextClear]_vars

\* ---------------------------------------------- a corpus of three documents
\* documents 1, 2, 3 with ngrams {"a": 2, "b": 1}, {"a": 1, "c": 3}, {"a": 1}
\* and a new store
InitScenario ==
    /\ corpus = <<[a |-> 2, b |-> 1, c |-> 0],
                  [a |-> 1, b |-> 0, c |-> 3],
                  [a |-> 1, b |-> 0, c |-> 0]>>
    /\ InitStore
    /\ table = {}
    /\ settings = {}
    /\ InitBuild
    /\ InitCollection

SpecScenario == InitScenario /\ [][Next]_vars

\* ------------------------------------- concurrent writers of the ngrams table
\* the records a caller can hold: the merge of a pair into the row it
\* fetched (with identity when the row was there), or into no row
records(tbl) ==
    UNION {{merge(get(tbl, hash(x)), x, 2), merge({}, x, 2)} :
              x \in Vocabulary}

RECURSIVE lists(_, _)
\* the lists of at most n records of R
lists(R, n) ==
    IF n = 0 THEN {<<>>}
    ELSE lists(R, n - 1) \cup
         {Append(l, r) : l \in {k \in lists(R, n - 1) : Len(k) = n - 1},
                         r \in R}

\* a caller calls bulk_update(items); each caller makes one call
call_bulk_update(c, items) ==
    /\ bu_pc[c] = "idle"
    /\ bulk_update_begin(c, items)
    /\ UNCHANGED <<corpus, table, settings, conflicts>>
    /\ UNCHANGED <<buildVars, workerVars, collectionVars>>

\* the caller's bulk_update commits or raises
return_bulk_update(c) ==
    /\ bulk_update_commit(c)
    /\ UNCHANGED <<corpus, settings, conflicts>>
    /\ UNCHANGED <<buildVars, workerVars, collectionVars>>

\* a merge worker is started on the pair (x, frequency); one worker per
\* n-gram string, as batch_processing starts them for one document
process_ngrams(x, frequency) ==
    /\ wpc[x] = "idle"
    /\ wpc' = [wpc EXCEPT ![x] = "fetch"]
    /\ wfreq' = [wfreq EXCEPT ![x] = frequency]
    /\ value' = [value EXCEPT ![x] = NoRecord]
    /\ failure' = [failure EXCEPT ![x] = "none"]
    /\ UNCHANGED <<corpus, table, settings, conflicts>>
    /\ UNCHANGED <<buildVars, bulkVars, collectionVars>>

InitBulk ==
    /\ corpus = [d \in 1..MaxDocs |-> [x \in NGramStrings |-> 0]]
    /\ InitStore
    /\ InitBuild
    /\ InitCollection

NextBulk ==
    \/ \E c \in Callers : \E items \in lists(records(table), MaxItems) :
          call_bulk_update(c, items)
    \/ \E c \in Callers : return_bulk_update(c)
    \/ \E x \in Vocabulary : process_ngrams(x, 2)
    \/ \E x \in NGramStrings : fetch(x)
    \/ \E x \in NGramStrings : fetch_retry(x)
    \/ \E x \in NGramStrings : scope_commit(x)
    \/ \E x \in NGramStrings : scope_raise(x)

SpecBulk == InitBulk /\ [][NextBulk]_vars

\* ------------------------------------ positional access (DB / ServiceDB)
RECURSIVE order_by(_)
\* ORDER BY id: the identities of S, ascending
order_by(S) ==
    IF S = {} THEN <<>>
    ELSE LET least == CHOOSE m \in S : \A y \in S : m <= y
         IN <<least>> \o order_by(S \ {least})

\* desc(id): the order reversed
desc(rows) == [i \in 1..Len(rows) |-> rows[Len(rows) + 1 - i]]

\* OFFSET n and LIMIT n of a statement
offset(rows, n) == SubSeq(rows, n + 1, Len(rows))
limit(rows, n) == SubSeq(rows, 1, IF n < Len(rows) THEN n ELSE Len(rows))

abs(i) == IF i < 0 THEN -i ELSE i

\* find_by_index with the offset wrapped around the length of the table
find_by_index_wrapped(S, i) ==
    LET rows == IF i < 0 THEN desc(order_by(S)) ELSE order_by(S)
    IN IF S = {} THEN <<>>
       ELSE limit(offset(rows, abs(i) % Cardinality(S)), 1)

\* find_by_index(index): <<>> for None, <<id>> for the row with that id
find_by_index(S, i) ==
    LET rows == IF i < 0 THEN desc(order_by(S)) ELSE order_by(S)
    IN limit(offset(rows, abs(i)), 1)

\* an optional integer (None is <<>>) taken as a condition: not None, not 0
truthy(opt) == opt # <<>> /\ opt[1] # 0

\* find_by_slice(slice(start, stop, step)): the rows the returned generator
\* yields, or the ZeroDivisionError of a modulo by an empty table's length
find_by_slice(S, start, stop, step) ==
    LET db_size == Cardinality(S)
        statement == IF truthy(step) /\ step[1] < 0
                     THEN desc(order_by(S)) ELSE order_by(S)
        with_stop == truthy(stop) /\ stop[1] <= db_size
    IN IF db_size = 0 /\ (truthy(start) \/ with_stop)
       THEN [raised |-> "ZeroDivisionError", rows |-> <<>>]
       ELSE LET off == IF truthy(start)
                       THEN (db_size + start[1]) % db_size ELSE 0
                lim == IF truthy(start)
                       THEN ((db_size + stop[1]) % db_size) - off
                       ELSE (db_size + stop[1]) % db_size
                shifted == IF truthy(start) THEN offset(statement, off)
                           ELSE statement
            IN [raised |-> "none",
                rows |-> IF with_stop
                         THEN limit(shifted, IF lim >= 0 THEN lim ELSE 0)
                         ELSE shifted]

Optional(S) == {<<>>} \cup {<<v>> : v \in S}

\* __getitem__ with an int: find_by_index(indexer)
get_index(i) ==
    /\ call' = [op |-> "find_by_index", index |-> i]
    /\ returned' = Returned(find_by_index(ids, i))
    /\ UNCHANGED <<corpus, table, settings, conflicts, ids, view, _index>>
    /\ UNCHANGED <<buildVars, workerVars, bulkVars>>

\* __getitem__ with a slice: the rows of find_by_slice(indexer)
get_slice(start, stop, step) ==
    /\ call' = [op |-> "find_by_slice", start |-> start, stop |-> stop,
                step |-> step]
    /\ returned' = find_by_slice(ids, start, stop, step)
    /\ UNCHANGED <<corpus, table, settings, conflicts, ids, view, _index>>
    /\ UNCHANGED <<buildVars, workerVars, bulkVars>>

InitIndexed ==
    /\ corpus = [d \in 1..MaxDocs |-> [x \in NGramStrings |-> 0]]
    /\ table = {} /\ settings = {}
    /\ wpc = [x \in NGramStrings |-> "idle"]
    /\ wfreq = [x \in NGramStrings |-> 0]
    /\ value = [x \in NGramStrings |-> NoRecord]
    /\ failure = [x \in NGramStrings |-> "none"]
    /\ bu_pc = [c \in Callers |-> "idle"]
    /\ old_items = [c \in Callers |-> <<>>]
    /\ new_items = [c \in Callers |-> <<>>]
    /\ conflicts = 0
    /\ InitBuild
    /\ ids \in SUBSET (1..MaxId)
    /\ view = NoView
    /\ _index = <<>>
    /\ call = NoCall
    /\ returned = Returned(<<>>)

NextIndexed ==
    \/ \E i \in -MaxPos..MaxPos : get_index(i)
    \/ \E start, stop \in Optional(-MaxPos..MaxPos) :
          \E step \in Optional({-1, 1}) : get_slice(start, stop, step)

SpecIndexed == InitIndexed /\ [][NextIndexed]_vars

\* ------------------------------------------- index-restricted views (DB)
\* the elements of a list
Range(lst) == {lst[k] : k \in DOMAIN lst}

\* DB.__init__(orm_model, index): the value given to self._index, with
\* len(self.index) the count of the rows of the table at that time
__init__(tbl, given) ==
    IF given = <<>> \/ Cardinality(tbl) = Len(given[1]) THEN <<>>
    ELSE IF Len(given[1]) = 0 THEN << <<>> >>
    ELSE given

\* is_custom_index: hasattr(self, "_index") and self._index != None
is_custom_index(idx) == idx # <<>>

\* __build_statement with the WHERE clause of a custom index left out
where_unrestricted(tbl, idx) == tbl

\* __build_statement: WHERE id IN (index) when the index is custom
where(tbl, idx) ==
    IF is_custom_index(idx) THEN {id \in tbl : id \in Range(idx[1])} ELSE tbl

\* DB.__len__
__len__(tbl, idx) ==
    IF is_custom_index(idx) THEN Len(idx[1]) ELSE Cardinality(tbl)

\* DB.rows(): the rows of the statement ordered by id
rows(tbl, idx) == order_by(where(tbl, idx))

RECURSIVE contains(_, _)
\* i in index, index a SubscriptableGenerator over the remaining elements:
\* the iteration consumes them up to the match; <<found, remaining>>
contains(i, remaining) ==
    IF remaining = <<>> THEN <<FALSE, <<>> >>
    ELSE IF Head(remaining) = i THEN <<TRUE, Tail(remaining)>>
    ELSE contains(i, Tail(remaining))

RECURSIVE comprehension(_, _)
\* [i for i in id if i in index]
comprehension(id, remaining) ==
    IF id = <<>> THEN <<>>
    ELSE LET test == contains(Head(id), remaining)
         IN (IF test[1] THEN <<Head(id)>> ELSE <<>>)
            \o comprehension(Tail(id), test[2])

\* DB.find(id): the rows found (<<>> for None and for an empty result), id
\* a list holding the one identity (a str, an int) or the identities
find(tbl, idx, type, id) ==
    CASE type = "str" ->
            IF idx # <<>> /\ idx[1] # <<>> /\ id[1] \notin Range(idx[1])
            THEN <<>>
            ELSE order_by(tbl \cap {id[1]})
      [] type = "Iterable" ->
            order_by(tbl \cap Range(IF is_custom_index(idx)
                                    THEN comprehension(id, idx[1]) ELSE id))
      [] OTHER -> <<>>

\* the lists without repetition of elements of S
Distinct(S) == {l \in lists(S, Cardinality(S)) :
                   \A j, k \in DOMAIN l : l[j] = l[k] => j = k}

\* len(view)
get_len ==
    /\ call' = [op |-> "__len__"]
    /\ returned' = Returned(<<__len__(ids, _index)>>)
    /\ UNCHANGED <<corpus, table, settings, conflicts, ids, view, _index>>
    /\ UNCHANGED <<buildVars, workerVars, bulkVars>>

\* iteration of view.rows()
get_rows ==
    /\ call' = [op |-> "rows"]
    /\ returned' = Returned(rows(ids, _index))
    /\ UNCHANGED <<corpus, table, settings, conflicts, ids, view, _index>>
    /\ UNCHANGED <<buildVars, workerVars, bulkVars>>

\* view.find(id)
get_find(type, id) ==
    /\ call' = [op |-> "find", type |-> type, id |-> id]
    /\ returned' = Returned(find(ids, _index, type, id))
    /\ UNCHANGED <<corpus, table, settings, conflicts, ids, view, _index>>
    /\ UNCHANGED <<buildVars, workerVars, bulkVars>>

\* view.find_by_index(index): the statement of find_by_index over the rows
\* of __build_statement
get_view_index(i) ==
    /\ call' = [op |-> "find_by_index", index |-> i]
    /\ returned' = Returned(find_by_index(where(ids, _index), i))
    /\ UNCHANGED <<corpus, table, settings, conflicts, ids, view, _index>>
    /\ UNCHANGED <<buildVars, workerVars, bulkVars>>

\* a row is inserted into the backing table by another collection
insert_row(id) ==
    /\ id \notin ids
    /\ ids' = ids \cup {id}
    /\ UNCHANGED <<corpus, table, settings, conflicts, view, _index, call,
                   returned>>
    /\ UNCHANGED <<buildVars, workerVars, bulkVars>>

InitView ==
    /\ corpus = [d \in 1..MaxDocs |-> [x \in NGramStrings |-> 0]]
    /\ InitStore
    /\ table = {}
    /\ InitBuild
    /\ ids \in SUBSET (1..MaxId)
    /\ \E given \in Optional(Distinct(1..MaxId)) :
          /\ view = [index |-> given, rows |-> ids]
          /\ _index = __init__(ids, given)
    /\ call = NoCall
    /\ returned = Returned(<<>>)

NextView ==
    \/ get_len
    \/ get_rows
    \/ \E type \in {"str", "int"} : \E id \in 1..MaxId : get_find(type, <<id>>)
    \/ \E id \in lists(1..MaxId, 2) : get_find("Iterable", id)
    \/ \E i \in -MaxPos..MaxPos : get_view_index(i)
    \/ \E id \in 1..MaxId : insert_row(id)

SpecView == InitView /\ [][NextView]_vars

\* ------------------------------------- delete_where and the Settings table
\* Settings.DEFAULTS
DEFAULTS == [last_document_processed |-> 0]

\* the keys callers pass: the recognised one and one that is not
Keys == {"last_document_processed", "vocab_size"}

\* no check of the key
is_valid_any(key) == TRUE

\* lines 41 and 49: key in cls.DEFAULTS.keys()
is_valid(key) == key \in DOMAIN DEFAULTS

\* the condition a `raise ValueError` leaves the call in
ValueError == [raised |-> "ValueError", rows |-> <<>>]

\* Settings.get(key): ValueError before session_scope for a key outside
\* DEFAULTS, else session.get(cls, key), the row or None
Settings_get(key) ==
    /\ call' = [op |-> "Settings.get", key |-> key,
                session_scope |-> is_valid(key)]
    /\ returned' = IF is_valid(key) THEN Returned(order_by(settings))
                   ELSE ValueError
    /\ UNCHANGED <<corpus, table, settings, conflicts, ids, view, _index>>
    /\ UNCHANGED <<buildVars, workerVars, bulkVars>>

\* Settings.set(key, value): ValueError before session_scope for a key outside
\* DEFAULTS, else the row is added when absent and its value assigned when
\* present, committed at the exit of session_scope
Settings_set(key, v) ==
    /\ call' = [op |-> "Settings.set", key |-> key,
                session_scope |-> is_valid(key)]
    /\ IF is_valid(key)
       THEN settings' = {v} /\ returned' = Returned(<<>>)
       ELSE returned' = ValueError /\ UNCHANGED settings
    /\ UNCHANGED <<corpus, table, conflicts, ids, view, _index>>
    /\ UNCHANGED <<buildVars, workerVars, bulkVars>>

\* the conditions callers pass to delete_where
Predicates ==
    {occurence_is_1,
     [column |-> "occurence", op |-> ">", value |-> 1],
     [column |-> "frequency", op |-> "==", value |-> 2],
     [column |-> "frequency", op |-> ">", value |-> 2]}

\* ServiceDB.delete_where(*args) on the ngrams table
call_delete_where(args) ==
    /\ call' = [op |-> "delete_where", args |-> args]
    /\ table' = delete_where(table, args)
    /\ returned' = Returned(<<>>)
    /\ UNCHANGED <<corpus, settings, conflicts, ids, view, _index>>
    /\ UNCHANGED <<buildVars, workerVars, bulkVars>>

\* the ngrams tables the calls start from: at most one row per string
Tables ==
    {{[id |-> hash(x), ngram |-> x, frequency |-> t[x][1],
       occurence |-> t[x][2]] : x \in {y \in Vocabulary : t[y] # <<>>}} :
        t \in [Vocabulary -> {<<>>, <<2, 1>>, <<3, 1>>, <<4, 2>>}]}

InitTables ==
    /\ corpus = [d \in 1..MaxDocs |-> [x \in NGramStrings |-> 0]]
    /\ InitWorkers
    /\ table \in Tables
    /\ settings \in {{}} \cup {{v} : v \in 0..MaxDocs}
    /\ InitBuild
    /\ InitCollection

NextTables ==
    \/ \E args \in lists(Predicates, MaxItems) : call_delete_where(args)
    \/ \E key \in Keys : Settings_get(key)
    \/ \E key \in Keys : \E v \in 0..MaxDocs : Settings_set(key, v)

SpecTables == InitTables /\ [][NextTables]_vars

\* ------------------------------------------- Embedding column type (pack "f")
\* a Python float: finite with magnitude m * 2^e, or inf / nan
Float(sign, m, e) == [class |-> "finite", sign |-> sign, m |-> m, e |-> e]
Inf(sign) == [class |-> "inf", sign |-> sign, m |-> 0, e |-> 0]
NaN == [class |-> "nan", sign |-> 0, m |-> 0, e |-> 0]

\* format "f": IEEE 754 binary32, 24 significand bits, exponent bias 127
Precision == 24
Bias == 127

RECURSIVE bit_length(_)
bit_length(m) == IF m = 0 THEN 0 ELSE 1 + bit_length(m \div 2)

\* m / 2^k with the fraction dropped
round_down(m, k) == IF k > bit_length(m) THEN 0 ELSE m \div 2^k

\* m / 2^k rounded to the nearest integer, ties to the even one (the
\* rounding of the conversion of a C double to a C float)
round_half_even(m, k) ==
    IF k = 0 THEN m
    ELSE IF k > bit_length(m) + 1 THEN 0
    ELSE LET q == m \div 2^k
             r == m % 2^k
             half == 2^(k - 1)
         IN IF r > half \/ (r = half /\ q % 2 = 1) THEN q + 1 ELSE q

\* the fields of the binary32 a finite float converts to: sign, biased
\* exponent, fraction; a magnitude that rounds to 2^128 or more gives inf
binary32(x) ==
    LET L == bit_length(x.m)
        E == L - 1 + x.e
        MinE == 1 - Bias
        unit == MinE - (Precision - 1)
        hidden == 2^(Precision - 1)
    IN IF x.class = "inf"
       THEN [sign |-> x.sign, exponent |-> 2 * Bias + 1, fraction |-> 0]
       ELSE IF x.class = "nan"
       THEN [sign |-> x.sign, exponent |-> 2 * Bias + 1,
             fraction |-> hidden \div 2]
       ELSE IF x.m = 0
       THEN [sign |-> x.sign, exponent |-> 0, fraction |-> 0]
       ELSE IF E >= MinE
       THEN LET sig == IF L <= Precision THEN x.m * 2^(Precision - L)
                       ELSE round_half_even(x.m, L - Precision)
                carry == sig = 2 * hidden
                E2 == IF carry THEN E + 1 ELSE E
            IN IF E2 > Bias
               THEN [sign |-> x.sign, exponent |-> 2 * Bias + 1,
                     fraction |-> 0]
               ELSE [sign |-> x.sign, exponent |-> E2 + Bias,
                     fraction |-> IF carry THEN 0 ELSE sig - hidden]
       ELSE LET q == IF x.e >= unit THEN x.m * 2^(x.e - unit)
                     ELSE round_half_even(x.m, unit - x.e)
            IN [sign |-> x.sign, exponent |-> q \div hidden,
                fraction |-> q % hidden]

\* the 4 bytes of a binary32 in native (little-endian) order
bytes4(b) ==
    <<b.fraction % 256,
      (b.fraction \div 256) % 256,
      (b.exponent % 2) * 128 + b.fraction \div 65536,
      b.sign * 128 + b.exponent \div 2>>

RECURSIVE pack(_)
\* pack(f"{len(lst)}f", *lst): 4 bytes per item, no header, no padding
pack(lst) ==
    IF lst = <<>> THEN <<>>
    ELSE bytes4(binary32(Head(lst))) \o pack(Tail(lst))

\* the float a group of 4 bytes decodes to
float4(b) ==
    LET sign == b[4] \div 128
        exponent == (b[4] % 128) * 2 + b[3] \div 128
        fraction == (b[3] % 128) * 65536 + b[2] * 256 + b[1]
        hidden == 2^(Precision - 1)
    IN IF exponent = 2 * Bias + 1
       THEN IF fraction = 0 THEN Inf(sign) ELSE NaN
       ELSE IF exponent = 0
       THEN Float(sign, fraction, 2 - Bias - Precision)
       ELSE Float(sign, hidden + fraction, exponent - Bias - (Precision - 1))

\* unpack(f"{n}f", buffer): struct.error unless the buffer has 4 * n bytes
unpack(n, buffer) ==
    IF Len(buffer) # 4 * n
    THEN [raised |-> "struct.error", rows |-> <<>>]
    ELSE Returned(<<[k \in 1..n |->
                      float4(SubSeq(buffer, 4 * k - 3, 4 * k))]>>)

\* process_bind_param(value): None for None, TypeError for a value that is
\* not an iterable or is a str and for an item that is not a Number,
\* float(item) of each item (TypeError for a complex), then pack; the
\* any(...) of line 18 leaves nothing of an iterator to the list of line 21
process_bind_param(vec) ==
    LET rest == IF vec.type = "iterator" THEN <<>> ELSE vec.items
    IN IF vec.type = "None" THEN Returned(<<>>)
       ELSE IF vec.type \notin {"list", "iterator"}
       THEN [raised |-> "TypeError", rows |-> <<>>]
       ELSE IF \E k \in DOMAIN vec.items : vec.items[k].type = "str"
       THEN [raised |-> "TypeError", rows |-> <<>>]
       ELSE IF \E k \in DOMAIN rest : rest[k].type = "complex"
       THEN [raised |-> "TypeError", rows |-> <<>>]
       ELSE Returned(<<pack([k \in DOMAIN rest |-> rest[k].x])>>)

\* process_result_value(value): None for None, else the list unpacked
process_result_value(stored) ==
    IF stored = <<>> THEN Returned(<<>>)
    ELSE unpack(Len(stored[1]) \div 4, stored[1])

\* the magnitudes the items are drawn from, as <<m, e>>: zero, one, integers
\* that need rounding to 24 bits, the greatest finite binary32 and its
\* neighbours above, the least normal and subnormal binary32 and below
Magnitudes ==
    {<<0, 0>>, <<1, 0>>, <<3, 0 - Precision>>,
     <<2^Precision + 1, 0>>, <<2^Precision + 3, 0>>,
     <<2^(Precision + 1) + 3, 0>>,
     <<2^Precision - 1, Bias + 1 - Precision>>,
     <<2^(Precision + 1) - 1, Bias - Precision>>,
     <<1, Bias + 1>>,
     <<1, 1 - Bias>>, <<1, 2 - Bias - Precision>>,
     <<3, 0 - Bias - Precision>>, <<1, 0 - Bias - Precision>>}

\* the items of a vector: real numbers (int, float), a complex, a str
Items ==
    {[type |-> "real", x |-> Float(sign, p[1], p[2])] :
        sign \in {0, 1}, p \in Magnitudes}
    \cup {[type |-> t, x |-> Float(0, 1, 0)] : t \in {"complex", "str"}}

\* the values bound to an Embedding column: None, a str, a value that is
\* not iterable, a list of items, an iterator over items
Values ==
    {[type |-> t, items |-> <<>>] : t \in {"None", "str", "int"}}
    \cup {[type |-> t, items |-> l] :
            t \in {"list", "iterator"}, l \in lists(Items, MaxDim)}

\* the value of the column is bound to an INSERT or UPDATE
bind ==
    /\ call.op = "Embedding"
    /\ call' = [op |-> "process_bind_param", value |-> call.value]
    /\ returned' = process_bind_param(call.value)
    /\ UNCHANGED <<corpus, table, settings, conflicts, ids, view, _index>>
    /\ UNCHANGED <<buildVars, workerVars, bulkVars>>

\* the bytes stored by the last bind are read back by a SELECT
result ==
    /\ call.op = "process_bind_param"
    /\ returned.raised = "none"
    /\ call' = [op |-> "process_result_value", value |-> call.value]
    /\ returned' = process_result_value(returned.rows)
    /\ UNCHANGED <<corpus, table, settings, conflicts, ids, view, _index>>
    /\ UNCHANGED <<buildVars, workerVars, bulkVars>>

InitEmbedding ==
    /\ corpus = [d \in 1..MaxDocs |-> [x \in NGramStrings |-> 0]]
    /\ InitWorkers
    /\ table = {} /\ settings = {}
    /\ InitBuild
    /\ ids = {}
    /\ view = NoView
    /\ _index = <<>>
    /\ \E vec \in Values : call = [op |-> "Embedding", value |-> vec]
    /\ returned = Returned(<<>>)

NextEmbedding ==
    \/ bind
    \/ result

SpecEmbedding == InitEmbedding /\ [][NextEmbedding]_vars

\* ------------------------------- CorpusView and find_ngram_by_match
\* the local variable query of find_ngram_by_match before its first assignment
Unbound == [id |-> "unbound", ngram |-> "", frequency |-> 0, occurence |-> 0]

\* the n-gram strings of the documents the view selects: the keys of the
\* ngrams column over __build_statement (self["ngrams"], lines 106-107)
keys(idx) ==
    {x \in NGramStrings :
        \E d \in where(DOMAIN corpus, idx) : corpus[d][x] > 0}

\* select(NGram).filter_by(ngram=data).limit(1), .first(): a row or None
first(tbl, string) ==
    IF \E r \in tbl : r.ngram = string
    THEN {r \in tbl : r.ngram = string}
    ELSE {NoRecord}

\* CorpusView.__init__ up to batch_processing (lines 99-111): DB.__init__
\* keeps the index, and with a custom index one find_ngram_by_match starts
\* per n-gram string; without one ngram_ids is None. The pdb.set_trace() of
\* line 109 stops for the user of the debugger, who continues.
CorpusView_init ==
    /\ pc = "idle"
    /\ _index' = __init__(DOMAIN corpus, view.index)
    /\ IF is_custom_index(_index')
       THEN /\ wpc' = [x \in NGramStrings |->
                         IF x \in keys(_index') THEN "try" ELSE "idle"]
            /\ value' = [x \in NGramStrings |-> Unbound]
            /\ pc' = "batch_processing"
            /\ UNCHANGED returned
       ELSE /\ pc' = "returned"
            /\ returned' = Returned(<<>>)
            /\ UNCHANGED <<wpc, value>>
    /\ UNCHANGED <<corpus, table, settings, resume, index,
                   last_document_processed, ngrams, error, pass, runs,
                   wfreq, failure, conflicts, ids, view, call>>
    /\ UNCHANGED bulkVars

\* line 28: query = session.execute(statement).first()
execute(x) ==
    /\ wpc[x] = "try"
    /\ \E r \in first(table, x) : value' = [value EXCEPT ![x] = r]
    /\ wpc' = [wpc EXCEPT ![x] = "finally"]
    /\ UNCHANGED <<corpus, table, settings, wfreq, failure, conflicts>>
    /\ UNCHANGED <<buildVars, bulkVars>>
    /\ UNCHANGED collectionVars

\* lines 29-30: session.execute raises OperationalError, continue; query
\* keeps what it held
execute_raise(x) ==
    /\ wpc[x] = "try"
    /\ conflicts < MaxConflicts
    /\ conflicts' = conflicts + 1
    /\ wpc' = [wpc EXCEPT ![x] = "finally"]
    /\ UNCHANGED <<corpus, table, settings, wfreq, value, failure>>
    /\ UNCHANGED <<buildVars, bulkVars>>
    /\ UNCHANGED collectionVars

\* lines 31-33: finally, if query: return query[0].id; reading query before
\* its first assignment raises UnboundLocalError; with query None the
\* clause ends and while True starts the next iteration
finally_clause(x) ==
    /\ wpc[x] = "finally"
    /\ wpc' = [wpc EXCEPT ![x] = IF value[x] = Unbound THEN "raised"
                                  ELSE IF value[x].id # None THEN "done"
                                  ELSE "try"]
    /\ UNCHANGED <<corpus, table, settings, wfreq, value, failure, conflicts>>
    /\ UNCHANGED <<buildVars, bulkVars>>
    /\ UNCHANGED collectionVars

\* the ids batch_processing returns, in the order of its data
ngram_ids ==
    LET done == SelectSeq(NGramOrder, LAMBDA x : wpc[x] = "done")
    IN [i \in 1..Len(done) |-> value[done[i]].id]

\* lines 111 and 124: batch_processing returns, VocabView(index=ngram_ids)
CorpusView_return ==
    /\ pc = "batch_processing"
    /\ \A x \in NGramStrings : wpc[x] \in {"idle", "done"}
    /\ returned' = Returned(ngram_ids)
    /\ wpc' = [x \in NGramStrings |-> "idle"]
    /\ pc' = "returned"
    /\ UNCHANGED <<corpus, table, settings, resume, index,
                   last_document_processed, ngrams, error, pass, runs,
                   wfreq, value, failure, conflicts, ids, view, _index, call>>
    /\ UNCHANGED bulkVars

\* line 111: batch_processing raises the exception of a worker again
CorpusView_raise ==
    /\ pc = "batch_processing"
    /\ \E x \in NGramStrings : wpc[x] = "raised"
    /\ returned' = [raised |-> "UnboundLocalError", rows |-> <<>>]
    /\ wpc' = [x \in NGramStrings |-> "idle"]
    /\ pc' = "raised"
    /\ UNCHANGED <<corpus, table, settings, resume, index,
                   last_document_processed, ngrams, error, pass, runs,
                   wfreq, value, failure, conflicts, ids, view, _index, call>>
    /\ UNCHANGED bulkVars

\* a corpus, an ngrams table and the index given to CorpusView
InitMatch ==
    /\ corpus \in [1..MaxDocs -> Documents]
    /\ InitWorkers
    /\ table \in {store.table : store \in InitStores}
    /\ settings = {}
    /\ InitBuild
    /\ ids = {}
    /\ \E given \in Optional(Distinct(1..MaxDocs)) :
          view = [index |-> given, rows |-> DOMAIN corpus]
    /\ _index = <<>>
    /\ call = NoCall
    /\ returned = Returned(<<>>)

NextMatch ==
    \/ CorpusView_init
    \/ \E x \in NGramStrings : execute(x)
    \/ \E x \in NGramStrings : execute_raise(x)
    \/ \E x \in NGramStrings : finally_clause(x)
    \/ CorpusView_return
    \/ CorpusView_raise

SpecMatch == InitMatch /\ [][NextMatch]_vars

\* every process that can take a step takes one: the constructor, and each
\* worker of batch_processing, which runs in a process of its own
SpecMatchFair ==
    /\ SpecMatch
    /\ WF_vars(CorpusView_init)
    /\ WF_vars(CorpusView_return)
    /\ WF_vars(CorpusView_raise)
    /\ \A x \in NGramStrings :
          WF_vars(execute(x)) /\ WF_vars(finally_clause(x))

\* ------------------------------------------------ SubscriptableGenerator
\* lines 26-30: a bound that is None or 0 stays None, any other becomes
\* (len(self) + bound) % len(self)
bound(n, opt) == IF truthy(opt) THEN <<(n + opt[1]) % n>> ELSE <<>>

\* line 34: start and start <= index or stop and stop >= index
selected(start, stop, i) ==
    \/ truthy(start) /\ start[1] <= i
    \/ truthy(stop) /\ stop[1] >= i

\* __getitem__(slice(start, stop)): the items the returned iterator yields
\* from enumerate over a copy (lines 25-34); with no item a bound that is
\* not None or 0 divides by len(self) = 0
getitem(items, start, stop) ==
    LET n == Len(items)
    IN IF n = 0 /\ (truthy(start) \/ truthy(stop))
       THEN [raised |-> "ZeroDivisionError", rows |-> <<>>]
       ELSE LET from == bound(n, start)
                to == bound(n, stop)
                kept == SelectSeq([i \in 1..n |-> i - 1],
                                  LAMBDA i : selected(from, to, i))
            IN Returned([k \in 1..Len(kept) |-> items[kept[k] + 1]])

\* g[start:stop] on a generator over call.items
get_generator_slice ==
    /\ call.op = "SubscriptableGenerator"
    /\ call' = [call EXCEPT !.op = "__getitem__"]
    /\ returned' = getitem(call.items, call.start, call.stop)
    /\ UNCHANGED <<corpus, table, settings, conflicts, ids, view, _index>>
    /\ UNCHANGED <<buildVars, workerVars, bulkVars>>

\* the generator is read again: the slice was taken from a copy (tee), so
\* to_list yields every item
to_list ==
    /\ call.op = "__getitem__"
    /\ call' = [call EXCEPT !.op = "to_list"]
    /\ returned' = Returned(call.items)
    /\ UNCHANGED <<corpus, table, settings, conflicts, ids, view, _index>>
    /\ UNCHANGED <<buildVars, workerVars, bulkVars>>

\* a generator over the items x0 .. x(n-1), item xk written k, and the slice
\* asked of it
InitGenerator ==
    /\ corpus = [d \in 1..MaxDocs |-> [x \in NGramStrings |-> 0]]
    /\ InitWorkers
    /\ table = {} /\ settings = {}
    /\ InitBuild
    /\ ids = {}
    /\ view = NoView
    /\ _index = <<>>
    /\ \E n \in 0..MaxPos : \E start, stop \in Optional(-MaxPos..MaxPos) :
          call = [op |-> "SubscriptableGenerator",
                  items |-> [i \in 1..n |-> i - 1],
                  start |-> start, stop |-> stop]
    /\ returned = Returned(<<>>)

NextGenerator ==
    \/ get_generator_slice
    \/ to_list

SpecGenerator == InitGenerator /\ [][NextGenerator]_vars

\* ------------------------------------------------------------------ claims
\* what document d dispatches for n-gram x: its frequency when above 1
Contribution(d, x) ==
    IF d \in DOMAIN corpus /\ corpus[d][x] > 1 THEN corpus[d][x] ELSE 0

Dispatches(d, x) == IF Contribution(d, x) > 0 THEN 1 ELSE 0

RECURSIVE Frequency(_, _)
\* sum of the contributions of documents 1..n to n-gram x
Frequency(x, n) ==
    IF n = 0 THEN 0 ELSE Frequency(x, n - 1) + Contribution(n, x)

\* number of the documents 1..n that dispatch n-gram x
Occurence(x, n) == Cardinality({d \in 1..n : Contribution(d, x) > 0})

\* the counters the table holds for n-gram x (0, 0 when it has no row)
Counters(x) ==
    IF \E r \in table : r.ngram = x
    THEN LET r == CHOOSE r \in table : r.ngram = x
         IN <<r.frequency, r.occurence>>
    ELSE <<0, 0>>

Merged == pc = "for" /\ index > Len(corpus)

\* C1: when build_vocab(resume=False) has merged every document and has not
\* pruned yet, the table has exactly one row for every dispatched n-gram,
\* its frequency is the sum of the contributions dispatched for it and its
\* occurence is the number of documents that dispatched it, whatever the
\* interleaving of the merge workers was.
C1_MergedCounts ==
    (Merged /\ ~resume) =>
        /\ \A x \in NGramStrings :
              Counters(x) = <<Frequency(x, Len(corpus)),
                              Occurence(x, Len(corpus))>>
        /\ \A r \in table : r.ngram \in NGramStrings /\ r.occurence > 0
        /\ \A r, q \in table : r.ngram = q.ngram => r = q

C1_Witness ==
    /\ Merged /\ ~resume
    /\ \E r \in table : r.occurence = 2 /\ r.frequency = 4
    /\ Cardinality(table) = 2

\* the table an uninterrupted build_vocab over the corpus ends with
UninterruptedTable ==
    {[id |-> hash(x), ngram |-> x,
      frequency |-> Frequency(x, Len(corpus)),
      occurence |-> Occurence(x, Len(corpus))] :
        x \in {y \in NGramStrings : Occurence(y, Len(corpus)) >= 2}}

\* C2: when a pass that began with build_vocab(resume=False) was interrupted
\* and build_vocab(resume=True) has merged every remaining document, the
\* table it ends with (after the pruning that follows) is the table of an
\* uninterrupted run.
C2_ResumeEqualsUninterrupted ==
    (Merged /\ resume /\ pass = "fresh") =>
        delete_where(table, <<occurence_is_1>>) = UninterruptedTable

\* C3: during the merge phase of a pass, with the persisted checkpoint at c,
\* the table holds the contribution of every document up to c exactly once
\* (beyond it, only contributions of document c + 1, the one in flight).
C3_CheckpointCoversMerged ==
    (pass = "fresh" /\ Running /\ settings # {}) =>
        LET c == CHOOSE v \in settings : TRUE
        IN \A x \in NGramStrings : \E m \in 0..MaxRuns :
              Counters(x) = <<Frequency(x, c) + m * Contribution(c + 1, x),
                              Occurence(x, c) + m * Dispatches(c + 1, x)>>

\* C4: a write conflict at the commit of a merge worker's unit of work never
\* ends the worker with the error and is never raised to the caller of
\* build_vocab.
C4_ConflictNeverSurfaces ==
    /\ \A x \in NGramStrings : wpc[x] # "raised"
    /\ error # "OperationalError"

\* the step in which caller c's bulk_update ends (session.commit() of line 117)
Ends(c) == bu_pc[c] = "commit" /\ bu_pc'[c] # "commit"

\* a record without identity of c's call has the hash identity of a row
Collides(c) ==
    \E i \in DOMAIN new_items[c] : get(table, hash_id(new_items[c][i])) # {}

\* the counters of the row with identity id, <<0, 0>> when there is none
CountersOf(tbl, id) ==
    IF get(tbl, id) = {} THEN <<0, 0>>
    ELSE LET r == CHOOSE r \in get(tbl, id) : TRUE
         IN <<r.frequency, r.occurence>>

\* C5 (as claimed): a bulk_update whose record without identity has the
\* hash identity of a row already in the table does not fail, and the row's
\* frequency and occurence are increased by the record's counters.
C5_CollisionMerged ==
    [][\A c \in Callers : (Ends(c) /\ Collides(c)) =>
          /\ bu_pc'[c] = "returned"
          /\ \A i \in DOMAIN new_items[c] :
                LET it == new_items[c][i]
                IN get(table, hash_id(it)) # {} =>
                      CountersOf(table', hash_id(it)) =
                          <<CountersOf(table, hash_id(it))[1] + it.frequency,
                            CountersOf(table, hash_id(it))[2] + it.occurence>>
      ]_vars

\* C5 (amended): a bulk_update whose record without identity has the hash
\* identity of a row already in the table creates no second row and merges
\* nothing: the insert is rejected, the call raises and the table is left
\* as it was.
C5_CollisionRejected ==
    [][\A c \in Callers : (Ends(c) /\ Collides(c)) =>
          /\ bu_pc'[c] = "raised"
          /\ table' = table
      ]_vars

C5_Witness ==
    \E c \in Callers :
        /\ bu_pc[c] = "raised"
        /\ \E i \in DOMAIN new_items[c] :
              /\ get(table, hash_id(new_items[c][i])) # {}
              /\ CountersOf(table, hash_id(new_items[c][i])) = <<3, 2>>
        /\ Cardinality(table) = 1

\* every record of c's call is in the table with the record's counters
Visible(c, tbl) ==
    /\ \A i \in DOMAIN old_items[c] :
          CountersOf(tbl, old_items[c][i].id) =
              <<old_items[c][i].frequency, old_items[c][i].occurence>>
    /\ \A i \in DOMAIN new_items[c] :
          CountersOf(tbl, hash_id(new_items[c][i])) =
              <<new_items[c][i].frequency, new_items[c][i].occurence>>

\* C6: the update group and the insert group of a bulk_update call are one
\* transaction: the step that ends a call either returns with every record
\* of both groups in the table, or raises with the table as it was, and no
\* earlier step of the call changes the table.
C6_OneTransaction ==
    [][\A c \in Callers :
          /\ (bu_pc[c] # "commit" /\ bu_pc'[c] = "commit") => table' = table
          /\ Ends(c) =>
                IF bu_pc'[c] = "returned"
                THEN Visible(c, table')
                ELSE bu_pc'[c] = "raised" /\ table' = table
      ]_vars

C6_Witness ==
    \E c \in Callers :
        /\ bu_pc[c] = "raised"
        /\ old_items[c] # <<>>
        /\ new_items[c] # <<>>
        /\ \A i \in DOMAIN old_items[c] :
              CountersOf(table, old_items[c][i].id) #
                  <<old_items[c][i].frequency, old_items[c][i].occurence>>

\* C7: the ngrams table never holds two rows with the same n-gram string or
\* the same id, and the id of every row is the hash of its string, whatever
\* merge workers and bulk_update calls run concurrently.
C7_OneRowPerNGram ==
    /\ \A r, q \in table : (r.ngram = q.ngram \/ r.id = q.id) => r = q
    /\ \A r \in table : r.id = hash(r.ngram)

C7_Witness ==
    \E c, d \in Callers :
        /\ bu_pc[c] = "returned" /\ bu_pc[d] = "raised"
        /\ \E i \in DOMAIN new_items[c], j \in DOMAIN new_items[d] :
              /\ new_items[c][i].ngram = new_items[d][j].ngram
              /\ get(table, hash_id(new_items[c][i])) # {}
        /\ \E x \in NGramStrings : wpc[x] = "done" /\ value[x].id # None

Size == Cardinality(ids)

\* C8 (as claimed): for k in 1..N, find_by_index(-k) returns the record
\* find_by_index(N - k) returns, and find_by_index(-1) the record with the
\* greatest identity.
C8_NegativeIndex ==
    (call.op = "find_by_index" /\ call.index < 0 /\ -call.index <= Size) =>
        /\ returned.rows = find_by_index(ids, Size + call.index)
        /\ call.index = -1 =>
              returned.rows = <<CHOOSE m \in ids : \A y \in ids : y <= m>>

\* C9: find_by_index(i) with i >= N or i < -N returns None and no record.
C9_OutOfRangeIsNone ==
    (call.op = "find_by_index"
        /\ (call.index >= Size \/ call.index < -Size)) =>
        returned = Returned(<<>>)

C9_Witness ==
    /\ call.op = "find_by_index"
    /\ Size = 2
    /\ call.index = -3
    /\ returned = Returned(<<>>)

\* C10 (as claimed): find_by_slice(slice(a, b)) with 0 <= a <= b <= N yields
\* b - a records, those of find_by_index(a), ..., find_by_index(b - 1) in
\* that order.
C10_SliceMatchesIndex ==
    (call.op = "find_by_slice" /\ call.step = <<>>
        /\ call.start # <<>> /\ call.stop # <<>>
        /\ 0 <= call.start[1] /\ call.start[1] <= call.stop[1]
        /\ call.stop[1] <= Size) =>
        /\ returned.raised = "none"
        /\ Len(returned.rows) = call.stop[1] - call.start[1]
        /\ \A k \in 1..Len(returned.rows) :
              <<returned.rows[k]>> = find_by_index(ids, call.start[1] + k - 1)

\* C11 (as claimed): find_by_slice never raises, whatever the slice and the
\* length of the collection; a slice over an empty collection returns an
\* empty sequence.
C11_SliceNeverRaises ==
    call.op = "find_by_slice" =>
        /\ returned.raised = "none"
        /\ Size = 0 => returned.rows = <<>>

\* the sequence the view was constructed from, when one was supplied
Supplied == view.index[1]

\* C12: a view constructed from a sequence S of distinct identities of rows
\* of the table, fewer than the table had rows, has length |S|, and its
\* find_by_index(i) for 0 <= i < |S| is the row with the (i+1)-th smallest
\* identity of S.
C12_RestrictedView ==
    (/\ view.index # <<>>
     /\ Range(Supplied) \subseteq view.rows
     /\ Len(Supplied) < Cardinality(view.rows)) =>
        /\ call.op = "__len__" => returned.rows = <<Len(Supplied)>>
        /\ (call.op = "find_by_index" /\ 0 <= call.index
               /\ call.index < Len(Supplied)) =>
              returned.rows = <<order_by(Range(Supplied))[call.index + 1]>>

C12_Witness ==
    /\ view = [index |-> << <<3, 1>> >>, rows |-> {1, 2, 3}]
    /\ call.op = "find_by_index"
    /\ call.index = 1
    /\ returned.rows = <<3>>

\* C13 (as claimed): through a view constructed from a sequence S (the empty
\* one included), find of identities outside S returns no row, even when
\* rows with those identities are in the backing table.
C13_FindOutsideRestriction ==
    (/\ view.index # <<>>
     /\ call.op = "find"
     /\ call.type \in {"str", "Iterable"}
     /\ Range(call.id) \cap Range(Supplied) = {}) =>
        returned.rows = <<>>

\* C14 (as claimed): once a view is constructed from a sequence, an insert
\* into the backing table changes neither its length, nor the rows it
\* iterates, nor the result of any find through it.
C14_ViewIgnoresInserts ==
    [][(view.index # <<>> /\ ids' # ids) =>
          /\ __len__(ids', _index') = __len__(ids, _index)
          /\ rows(ids', _index') = rows(ids, _index)
          /\ \A id \in 1..MaxId :
                find(ids', _index', "str", <<id>>) =
                    find(ids, _index, "str", <<id>>)
      ]_vars

\* the strings of the rows of the table
Strings == {r.ngram : r \in table}

Pruned == pc = "returned" /\ ~resume /\ error = "none"

\* C15 as stated: over the corpus of three documents {"a": 2, "b": 1},
\* {"a": 1, "c": 3}, {"a": 1}, build_vocab(resume=False) ends the merge phase
\* with "a" at frequency 4 and occurence 3 and "c" at frequency 3 and
\* occurence 1, and after pruning the table holds exactly the row "a".
C15_ScenarioAsStated ==
    /\ (Merged /\ ~resume) =>
          Counters("a") = <<4, 3>> /\ Counters("c") = <<3, 1>>
    /\ Pruned => Strings = {"a"}

\* C15 amended: over that corpus build_vocab(resume=False) ends the merge
\* phase with "a" at frequency 2 and occurence 1 (documents 2 and 3 hold "a"
\* once and dispatch nothing for it), "c" at frequency 3 and occurence 1 and
\* no row for "b", and after pruning the table is empty.
C15_Scenario ==
    /\ (Merged /\ ~resume) =>
          /\ Counters("a") = <<2, 1>>
          /\ Counters("c") = <<3, 1>>
          /\ Strings = {"a", "c"}
    /\ Pruned => table = {}

C15_Witness ==
    /\ Merged /\ ~resume
    /\ corpus[2]["c"] = 3 /\ Len(corpus) = 3
    /\ Counters("a") = <<2, 1>> /\ Counters("c") = <<3, 1>>

\* C16: in every state during and after a build pass every row of the ngrams
\* table has frequency >= occurence >= 0, and no step of a build pass
\* lowers the occurence of a row that is in the table before and after it.
C16_OccurenceBounds ==
    /\ [](\A r \in table : r.frequency >= r.occurence /\ r.occurence >= 0)
    /\ [][\A r \in table : \A q \in table' :
            q.id = r.id => q.occurence >= r.occurence]_vars

C16_Witness ==
    /\ Running
    /\ \E r \in table : r.occurence = 3 /\ r.frequency >= 5

\* C17: a failure of the storage infrastructure raised while a merge worker
\* processes a pair ends the worker with the exception raised (it is not
\* caught and retried), and batch_processing never returns normally to
\* build_vocab after such a failure: build_vocab raises it.
C17_InfrastructureFailurePropagates ==
    [][/\ \A x \in NGramStrings :
            (\E exc \in ExceptionClasses : storage_failure(x, exc)) =>
                wpc'[x] = "raised"
       /\ (pc = "batch_processing" /\ pc' = "bulk_update") =>
            \A x \in NGramStrings : failure[x] = "none"]_vars

\* C18: delete_where called with no condition leaves every row of the table
\* as it was, and no call of delete_where deletes a row that does not
\* satisfy all of the conditions given.
C18_DeleteWhereFrame ==
    [][call'.op = "delete_where" =>
          /\ call'.args = <<>> => table' = table
          /\ table' \subseteq table
          /\ \A r \in table \ table' :
                \A k \in DOMAIN call'.args : satisfies(r, call'.args[k])]_vars

C18_Witness ==
    /\ call.op = "delete_where"
    /\ Len(call.args) = 2
    /\ call.args[1].column # call.args[2].column
    /\ Cardinality(table) = 1
    /\ \E r \in table : satisfies(r, call.args[1]) /\ ~satisfies(r, call.args[2])

\* C19: Settings.get and Settings.set called with a key outside DEFAULTS
\* raise ValueError without entering session_scope, and the step leaves the
\* settings table as it was.
C19_UnknownKey ==
    /\ []((call.op \in {"Settings.get", "Settings.set"}
            /\ call.key \notin DOMAIN DEFAULTS) =>
              returned.raised = "ValueError" /\ ~call.session_scope)
    /\ [][(call'.op \in {"Settings.get", "Settings.set"}
             /\ call'.key \notin DOMAIN DEFAULTS) =>
              settings' = settings]_vars

C19_Witness ==
    /\ call.op = "Settings.set"
    /\ call.key = "vocab_size"
    /\ returned.raised = "ValueError"
    /\ settings = {2}

\* m1 * 2^e1 <= m2 * 2^e2
Le(m1, e1, m2, e2) ==
    LET t1 == bit_length(m1) + e1
        t2 == bit_length(m2) + e2
        u == IF e1 < e2 THEN e1 ELSE e2
    IN IF m1 = 0 THEN TRUE
       ELSE IF m2 = 0 THEN FALSE
       ELSE IF t1 # t2 THEN t1 < t2
       ELSE m1 * 2^(e1 - u) <= m2 * 2^(e2 - u)

\* y equals x within float32 precision: same sign, and the magnitudes
\* differ by at most 2^-24 of the magnitude of x or by at most 2^-150
Within(x, y) ==
    /\ y.class = "finite"
    /\ y.sign = x.sign
    /\ LET ex == IF x.m = 0 THEN y.e ELSE x.e
           ey == IF y.m = 0 THEN ex ELSE y.e
           u == IF ex < ey THEN ex ELSE ey
           tx == bit_length(x.m) + ex - u
           ty == bit_length(y.m) + ey - u
           floor == 1 - Bias - Precision - u
       IN /\ tx <= Precision + 4 /\ ty <= Precision + 4
          /\ LET X == x.m * 2^(ex - u)
                 Y == y.m * 2^(ey - u)
                 D == IF X < Y THEN Y - X ELSE X - Y
             IN \/ D <= X \div 2^Precision
                \/ floor > Precision + 4
                \/ (floor >= 0 /\ D <= 2^floor)

\* the round trip of the last bound value gave n values, each equal to the
\* original within float32 precision
RoundTrip ==
    LET items == call.value.items
    IN /\ returned.raised = "none"
       /\ returned.rows # <<>>
       /\ Len(returned.rows[1]) = Len(items)
       /\ \A k \in DOMAIN items : Within(items[k].x, returned.rows[1][k])

\* the last bound value gave exactly 4 * n bytes
Packed ==
    /\ returned.raised = "none"
    /\ returned.rows # <<>>
    /\ Len(returned.rows[1]) = 4 * Len(call.value.items)
    /\ \A k \in DOMAIN returned.rows[1] : returned.rows[1][k] \in 0..255

Numbers(items) ==
    \A k \in DOMAIN items : items[k].type \in {"real", "complex"}

\* real numbers of magnitude at most the greatest finite float32
Representable(items) ==
    \A k \in DOMAIN items :
        /\ items[k].type = "real"
        /\ items[k].x.class = "finite"
        /\ Le(items[k].x.m, items[k].x.e,
              2^Precision - 1, Bias + 1 - Precision)

C21_PassThroughEquivalent ==
    (/\ view.index # <<>>
     /\ Len(view.index[1]) = Cardinality(view.rows)
     /\ call.op # "none") =>
        /\ _index = <<>>
        /\ returned =
             CASE call.op = "__len__" ->
                     Returned(<<__len__(ids, view.index)>>)
               [] call.op = "rows" -> Returned(rows(ids, view.index))
               [] call.op = "find" ->
                     Returned(find(ids, view.index, call.type, call.id))
               [] call.op = "find_by_index" ->
                     Returned(find_by_index(where(ids, view.index),
                                            call.index))
               [] OTHER -> returned

\* C22: in build_vocab the persisted checkpoint is set to ordinal i only
\* after the bulk_update of document i has committed: the step that sets it
\* is taken with that bulk_update returned and every merged record of the
\* document in the table.
C22_CheckpointAfterCommit ==
    [][(settings' # settings /\ settings' # {0}) =>
          /\ settings' = {index}
          /\ index \in 1..Len(corpus)
          /\ bu_pc["c1"] = "returned"
          /\ \A k \in DOMAIN ngrams :
                CountersOf(table, hash(ngrams[k].ngram)) =
                    <<ngrams[k].frequency, ngrams[k].occurence>>]_vars

C22_Witness ==
    /\ pc = "for"
    /\ settings = {2}
    /\ index = 3
    /\ CountersOf(table, hash("b")) = <<4, 2>>

\* build_vocab is inside its loop over the documents
InLoop == pc \in {"for", "batch_processing", "bulk_update", "commit",
                  "checkpoint"}

\* C23: build_vocab(resume=True) that read checkpoint c dispatches merges
\* only for documents of ordinal greater than c, passes over the documents
\* one by one in ascending order (a document of ordinal <= c by the skip, a
\* document of ordinal > c only after its merge and checkpoint), and changes
\* no row while it is at a document of ordinal <= c.
C23_ResumeSkipsProcessed ==
    [][(resume /\ InLoop) =>
          /\ (pc = "for" /\ pc' = "batch_processing") =>
                index > last_document_processed
          /\ index' # index =>
                /\ index' = index + 1
                /\ index <= Len(corpus)
                /\ index <= last_document_processed =>
                      pc = "for" /\ UNCHANGED <<table, settings>>
                /\ index > last_document_processed => pc = "checkpoint"
          /\ table' # table =>
                index > last_document_processed \/ index > Len(corpus)
          /\ UNCHANGED last_document_processed]_vars

C23_Witness ==
    /\ resume
    /\ pc = "batch_processing"
    /\ last_document_processed = 1
    /\ index = 2
    /\ wpc["a"] = "done"

\* C24: while build_vocab processes a document, an n-gram whose frequency in
\* that document is 1 has no merge worker, and no step of the processing
\* creates a row for it or changes the frequency or occurence of its row.
C24_SingleOccurrenceUntouched ==
    [][\A x \in NGramStrings :
          (InLoop /\ index \in DOMAIN corpus /\ corpus[index][x] = 1) =>
              /\ wpc'[x] = "idle"
              /\ CountersOf(table', hash(x)) = CountersOf(table, hash(x))]_vars

C24_Witness ==
    /\ pc = "checkpoint"
    /\ corpus[index]["a"] = 1
    /\ corpus[index]["b"] = 2
    /\ Counters("a") = <<3, 2>>
    /\ Counters("b") = <<2, 1>>

\* C25: when build_vocab returns, the ngrams table has no row with
\* occurence = 1, and the step that ends the merge phase and returns keeps
\* every row whose occurence is 2 or more, with the frequency and the
\* occurence it had, and adds no row.
C25_PruneKeepsRepeated ==
    /\ [](pc = "returned" => \A r \in table : r.occurence # 1)
    /\ [][(pc # "returned" /\ pc' = "returned") =>
            /\ Merged
            /\ \A r \in table : r.occurence >= 2 => r \in table'
            /\ table' \subseteq table]_vars

C25_Witness ==
    /\ Pruned /\ pass = "pruned"
    /\ Occurence("b", Len(corpus)) = 1
    /\ Counters("b") = <<0, 0>>
    /\ Counters("a") = <<4, 2>>

\* the row a fresh run over the corpus leaves for n-gram x: none unless two
\* documents or more dispatch x
Final(x) ==
    LET n == Len(corpus)
    IN IF Occurence(x, n) >= 2
       THEN {[id |-> hash(x), ngram |-> x, frequency |-> Frequency(x, n),
              occurence |-> Occurence(x, n)]}
       ELSE {}

\* C26: build_vocab(resume=False) has emptied the ngrams table and persisted
\* last_document_processed = 0 when it reads the checkpoint and when it
\* reaches the first document, before anything is merged, and the table it
\* returns with is a function of the corpus alone, whatever the table and
\* the checkpoint held before.
C26_FreshRunIgnoresPriorStore ==
    /\ (~resume /\ pc = "get") => table = {} /\ settings = {0}
    /\ (~resume /\ pc = "for" /\ index = 1) =>
          table = {} /\ settings = {0} /\ last_document_processed = 0
    /\ Pruned => table = UNION {Final(x) : x \in NGramStrings}

C26_Witness ==
    /\ Pruned /\ runs = 2
    /\ corpus[1]["b"] = 2 /\ corpus[2]["b"] = 1
    /\ table = Final("a") /\ Counters("a") = <<4, 2>>

\* a resumed build runs after a clear_vocab, the checkpoint is the length of
\* the corpus (what a completed build leaves) and the table is empty
AfterClear ==
    /\ resume /\ Running /\ pass = "cleared"
    /\ settings = {Len(corpus)} /\ table = {}

\* C27: clear_vocab called between builds leaves the persisted checkpoint as
\* it is; when the checkpoint is the one a completed build left, the
\* build_vocab(resume=True) that follows the clear only reads the checkpoint
\* and skips: no step of it puts a row in the table or moves the checkpoint,
\* so it returns with an empty table, although the corpus has n-grams a
\* fresh build keeps.
C27_ClearKeepsCheckpoint ==
    /\ [][(~Running /\ ~Running') => settings' = settings]_vars
    /\ [](AfterClear => pc \in {"get", "for"})
    /\ [][AfterClear => table' = {} /\ settings' = settings]_vars

C27_Witness ==
    /\ resume /\ pass = "cleared" /\ Merged
    /\ settings = {Len(corpus)} /\ last_document_processed = Len(corpus)
    /\ table = {} /\ Final("a") # {}

\* C28: build_vocab(resume=True) on a store that holds no
\* last_document_processed row reads the checkpoint as its default 0: the
\* read does not fail, and the loop starts at the first document with
\* nothing to skip.
C28_DefaultCheckpoint ==
    [][(resume /\ pc = "get" /\ settings = {} /\ pc' # "killed") =>
          /\ pc' = "for"
          /\ error' = "none"
          /\ last_document_processed' = DEFAULTS.last_document_processed
          /\ index' = 1]_vars

\* C29: every find_ngram_by_match ends, with the identity of the row whose
\* ngram is its string when the table has one and with None when it has
\* none, so the construction of a CorpusView over any subset of the
\* documents comes to an end (the view is built, or the exception of a
\* worker leaves the constructor).
C29_ViewConstructed ==
    /\ <>(pc \in {"returned", "raised"})
    /\ [](\A x \in NGramStrings : wpc[x] = "done" =>
            value[x].id = (IF get(table, hash(x)) # {} THEN hash(x) ELSE None))

\* C30: for a generator over n items and integers a, b with
\* 0 <= a <= b <= n, g[a:b] yields the items xa .. x(b-1) in order, b - a
\* items.
C30_SliceYieldsRange ==
    (/\ call.op = "__getitem__"
     /\ call.start # <<>> /\ call.stop # <<>>
     /\ 0 <= call.start[1] /\ call.start[1] <= call.stop[1]
     /\ call.stop[1] <= Len(call.items)) =>
        returned = Returned(SubSeq(call.items, call.start[1] + 1,
                                   call.stop[1]))

====
